---- MODULE Spec2Model ----
(***************************************************************************)
(* A model of todolist.py: the JSON store (load_tasks / save_tasks), the   *)
(* command engine (list_tasks, add_task, complete_task, remove_task), and  *)
(* the three front ends: the command line (main), the read-eval-print loop *)
(* (run_interactive) and the text-box view (run_gui).                      *)
(*                                                                         *)
(* A string is a sequence of one-character strings.  A task is a record    *)
(* [desc, done]; the task list is a sequence of tasks.  The store file is  *)
(* absent (NoFile) or holds a JSON document: a sequence of objects whose   *)
(* "desc" is the escaped JSON string and whose "done" is the JSON literal. *)
(***************************************************************************)
EXTENDS Integers, Sequences, FiniteSets, TLC

VARIABLES
    tasks,   \* the in-memory task list of the running process
    file,    \* todo.json: absent, or the JSON document last written
    front,   \* the front end of the process: "none", "cli", "repl", "gui"
    pc,      \* "start", "ready" (REPL prompt), "gui" (mainloop), "exit", "crashed"
    call,    \* the last handler that ran and the index it was given
    out,     \* what the last handler printed
    text     \* the content of the text widget (without Tk's final newline)

vars == <<tasks, file, front, pc, call, out, text>>

----------------------------------------------------------------------------
(* Bounds of the model.                                                    *)

MaxTasks == 2      \* add is not modelled on a list of this length
MaxTextLen == 3    \* the text box is edited only while it is at most this long

----------------------------------------------------------------------------
(* Strings.                                                                *)

NL == "\n"
SP == " "
Whitespace == {SP, NL}

\* The characters a key press can put into the text box.
TextChars == {"a", SP, NL}

\* Descriptions given to `add` on the command line: empty, plain, with
\* leading whitespace, and with an embedded line break.
Descs == { <<>>, <<"a">>, <<SP, "a">>, <<"a", NL, "a">> }

\* Raw lines typed at the REPL's "Task description: " prompt.
Lines == { <<>>, <<SP, "a", SP>> }

\* Whitespace-free tokens that can follow `add` on a REPL line.
Words == { <<"a">> }

Digits == <<"0", "1", "2", "3", "4", "5", "6", "7", "8", "9">>
DecimalChars == {Digits[i] : i \in 1..Len(Digits)}
\* "sup2" stands for U+00B2 SUPERSCRIPT TWO: a digit for str.isdigit, not for int().
DigitChars == DecimalChars \cup {"sup2"}

\* Tokens given as a task number: 0..MaxTasks+1, -1 and -(MaxTasks+1), a
\* letter, and a superscript digit.
NumTokens ==
    {<<Digits[n + 1]>> : n \in 0..(MaxTasks + 1)}
        \cup {<<"-", Digits[n + 1]>> : n \in {1, MaxTasks + 1}}
        \cup {<<"x">>, <<"sup2">>}

RECURSIVE LStrip(_)
LStrip(s) ==
    IF s # <<>> /\ Head(s) \in Whitespace THEN LStrip(Tail(s)) ELSE s

RECURSIVE RStrip(_)
RStrip(s) ==
    IF s # <<>> /\ s[Len(s)] \in Whitespace
    THEN RStrip(SubSeq(s, 1, Len(s) - 1))
    ELSE s

\* str.strip()
Strip(s) == RStrip(LStrip(s))

RECURSIVE SplitFrom(_, _, _)
SplitFrom(s, cur, acc) ==
    IF s = <<>>
    THEN IF cur = <<>> THEN acc ELSE Append(acc, cur)
    ELSE IF Head(s) = NL
         THEN SplitFrom(Tail(s), <<>>, Append(acc, cur))
         ELSE SplitFrom(Tail(s), Append(cur, Head(s)), acc)

\* str.splitlines()
SplitLines(s) == SplitFrom(s, <<>>, <<>>)

RECURSIVE Join(_, _)
\* sep.join(parts)
Join(parts, sep) ==
    IF parts = <<>> THEN <<>>
    ELSE IF Len(parts) = 1 THEN parts[1]
    ELSE parts[1] \o sep \o Join(Tail(parts), sep)

\* str.isdigit()
IsDigit(s) == s # <<>> /\ \A i \in 1..Len(s) : s[i] \in DigitChars

DigitVal(c) == CHOOSE n \in 0..9 : Digits[n + 1] = c

RECURSIVE DecValue(_)
DecValue(s) ==
    IF s = <<>> THEN 0
    ELSE 10 * DecValue(SubSeq(s, 1, Len(s) - 1)) + DigitVal(s[Len(s)])

\* int(s): [ok |-> FALSE] stands for ValueError.
PyInt(s) ==
    LET t == Strip(s)
        signed == t # <<>> /\ Head(t) \in {"-", "+"}
        body == IF signed THEN Tail(t) ELSE t
    IN  IF body # <<>> /\ \A i \in 1..Len(body) : body[i] \in DecimalChars
        THEN [ok |-> TRUE,
              val |-> IF signed /\ Head(t) = "-" THEN 0 - DecValue(body)
                      ELSE DecValue(body)]
        ELSE [ok |-> FALSE, val |-> 0]

----------------------------------------------------------------------------
(* Store.                                                                  *)

\* todo.json: whether it exists, and the JSON document in it.
NoFile == [exists |-> FALSE, doc |-> <<>>]

RECURSIVE JsonEscape(_)
\* json.dump of a str: control characters, the quote and the backslash are escaped.
JsonEscape(s) ==
    IF s = <<>> THEN <<>>
    ELSE (CASE Head(s) = NL -> <<"\\", "n">>
            [] Head(s) = "\\" -> <<"\\", "\\">>
            [] Head(s) = "\"" -> <<"\\", "\"">>
            [] OTHER -> <<Head(s)>>) \o JsonEscape(Tail(s))

RECURSIVE JsonUnescape(_)
\* json.load of a JSON string.
JsonUnescape(s) ==
    IF s = <<>> THEN <<>>
    ELSE IF Head(s) = "\\" /\ Len(s) >= 2
         THEN <<(IF s[2] = "n" THEN NL ELSE s[2])>> \o JsonUnescape(Tail(Tail(s)))
         ELSE <<Head(s)>> \o JsonUnescape(Tail(s))

\* A faulty json_dump: the done flag written as Python's str(bool).
json_dump_done_as_str(ts) ==
    [i \in 1..Len(ts) |->
        [desc |-> JsonEscape(ts[i].desc),
         done |-> IF ts[i].done THEN "True" ELSE "False"]]

json_dump(ts) ==
    [i \in 1..Len(ts) |->
        [desc |-> JsonEscape(ts[i].desc),
         done |-> IF ts[i].done THEN "true" ELSE "false"]]

json_load(doc) ==
    [i \in 1..Len(doc) |->
        [desc |-> JsonUnescape(doc[i].desc),
         done |-> doc[i].done = "true"]]

load_tasks(f) == IF ~f.exists THEN <<>> ELSE json_load(f.doc)

save_tasks(ts) == [exists |-> TRUE, doc |-> json_dump(ts)]

----------------------------------------------------------------------------
(* Command engine.  Each operator returns what the function leaves behind: *)
(* the task list, the store file and the printed message.                  *)

Msg(kind, idx, desc, lines) ==
    [kind |-> kind, idx |-> idx, desc |-> desc, lines |-> lines]

NoOutput == Msg("none", 0, <<>>, <<>>)

Call(op, idx) == [op |-> op, idx |-> idx]

\* list_tasks: the lines printed, or the placeholder when the list is empty.
list_tasks(ts) ==
    IF ts = <<>>
    THEN Msg("NoTasksYet", 0, <<>>, <<>>)
    ELSE Msg("Listing", 0, <<>>,
             [i \in 1..Len(ts) |->
                 [pos |-> i,
                  status |-> IF ts[i].done THEN "check" ELSE " ",
                  desc |-> ts[i].desc]])

\* A faulty add_task: tasks.insert(0, ...) in place of tasks.append(...).
add_task_prepend(ts, f, desc) ==
    LET new == <<[desc |-> desc, done |-> FALSE]>> \o ts
    IN  [tasks |-> new, file |-> save_tasks(new), out |-> Msg("Added", 0, desc, <<>>)]

add_task(ts, f, desc) ==
    LET new == Append(ts, [desc |-> desc, done |-> FALSE])
    IN  [tasks |-> new, file |-> save_tasks(new), out |-> Msg("Added", 0, desc, <<>>)]

\* The 1-based position that Python's list indexing gives the 0-based index i
\* on a list of length n; 0 stands for IndexError.
PyIndex(n, i) ==
    IF 0 <= i /\ i < n THEN i + 1
    ELSE IF 0 - n <= i /\ i < 0 THEN n + i + 1
    ELSE 0

\* A faulty complete_task: tasks[idx] in place of tasks[idx-1].
complete_task_zero_based(ts, f, idx) ==
    LET p == PyIndex(Len(ts), idx)
    IN  IF p = 0
        THEN [tasks |-> ts, file |-> f, out |-> Msg("NoTask", idx, <<>>, <<>>)]
        ELSE LET new == [ts EXCEPT ![p].done = TRUE]
             IN  [tasks |-> new, file |-> save_tasks(new),
                  out |-> Msg("Completed", idx, <<>>, <<>>)]

complete_task(ts, f, idx) ==
    LET p == PyIndex(Len(ts), idx - 1)
    IN  IF p = 0
        THEN [tasks |-> ts, file |-> f, out |-> Msg("NoTask", idx, <<>>, <<>>)]
        ELSE LET new == [ts EXCEPT ![p].done = TRUE]
             IN  [tasks |-> new, file |-> save_tasks(new),
                  out |-> Msg("Completed", idx, <<>>, <<>>)]

\* A faulty remove_task: tasks.pop() in place of tasks.pop(idx-1).
remove_task_pop_last(ts, f, idx) ==
    LET p == PyIndex(Len(ts), idx - 1)
    IN  IF p = 0
        THEN [tasks |-> ts, file |-> f, out |-> Msg("NoTask", idx, <<>>, <<>>)]
        ELSE LET new == SubSeq(ts, 1, Len(ts) - 1)
             IN  [tasks |-> new, file |-> save_tasks(new),
                  out |-> Msg("Removed", 0, ts[Len(ts)].desc, <<>>)]

\* A faulty remove_task: the save_tasks call left out.
remove_task_unsaved(ts, f, idx) ==
    LET p == PyIndex(Len(ts), idx - 1)
    IN  IF p = 0
        THEN [tasks |-> ts, file |-> f, out |-> Msg("NoTask", idx, <<>>, <<>>)]
        ELSE LET new == SubSeq(ts, 1, p - 1) \o SubSeq(ts, p + 1, Len(ts))
             IN  [tasks |-> new, file |-> f,
                  out |-> Msg("Removed", 0, ts[p].desc, <<>>)]

remove_task(ts, f, idx) ==
    LET p == PyIndex(Len(ts), idx - 1)
    IN  IF p = 0
        THEN [tasks |-> ts, file |-> f, out |-> Msg("NoTask", idx, <<>>, <<>>)]
        ELSE LET new == SubSeq(ts, 1, p - 1) \o SubSeq(ts, p + 1, Len(ts))
             IN  [tasks |-> new, file |-> save_tasks(new),
                  out |-> Msg("Removed", 0, ts[p].desc, <<>>)]

print_help == Msg("Usage", 0, <<>>, <<>>)

\* print("Unknown command: ..."); print_help()
unknown_command == Msg("UnknownUsage", 0, <<>>, <<>>)

----------------------------------------------------------------------------
(* The state after construction: the interpreter has started, nothing is   *)
(* loaded yet, and there is no store file.                                 *)

Init ==
    /\ tasks = <<>>
    /\ file = NoFile
    /\ front = "none"
    /\ pc = "start"
    /\ call = Call("none", 0)
    /\ out = NoOutput
    /\ text = <<>>

\* The effect of an engine call r made by handler op with index idx.
Apply(r, op, idx) ==
    /\ tasks' = r.tasks
    /\ file' = r.file
    /\ out' = r.out
    /\ call' = Call(op, idx)

----------------------------------------------------------------------------
(* Command line: main() with sys.argv = [prog, cmd] + args.                *)

\* argv[1] on the command line, and the first token of a REPL line.
CmdWords == {"list", "add", "done", "complete", "rm", "remove", "help",
             "exit", "quit", "LIST", "foo"}

\* str.lower() on the command words.
Lower(w) == IF w = "LIST" THEN "list" ELSE w

AddArgs == {<<d>> : d \in Descs}
NumArgs == {<<t>> : t \in NumTokens}
OtherArgs == {<<>>, << <<"1">>, <<"1">> >>}

\* How a process ends: it returns, or an uncaught exception ends it.
Finish(crashed) == pc' = IF crashed THEN "crashed" ELSE "exit"

\* An uncaught ValueError out of int(): nothing is changed, a traceback is printed.
Raise(ts, op) ==
    /\ tasks' = ts
    /\ file' = file
    /\ out' = Msg("ValueError", 0, <<>>, <<>>)
    /\ call' = Call(op, 0)
    /\ pc' = "crashed"

\* main(), len(sys.argv) == 1: run_gui(tasks), up to root.mainloop().
load_text(ts) == Join([i \in 1..Len(ts) |-> ts[i].desc \o <<NL>>], <<>>)

MainGui ==
    /\ pc = "start"
    /\ tasks' = load_tasks(file)
    /\ text' = load_text(load_tasks(file))
    /\ front' = "gui"
    /\ pc' = "gui"
    /\ call' = Call("open", 0)
    /\ out' = NoOutput
    /\ UNCHANGED file

MainHelp(cmd, args) ==
    /\ pc = "start"
    /\ cmd = "help"
    /\ tasks' = load_tasks(file)
    /\ out' = print_help
    /\ call' = Call("help", 0)
    /\ front' = "cli"
    /\ Finish(FALSE)
    /\ UNCHANGED <<file, text>>

MainList(cmd, args) ==
    /\ pc = "start"
    /\ cmd = "list"
    /\ tasks' = load_tasks(file)
    /\ out' = list_tasks(load_tasks(file))
    /\ call' = Call("list", 0)
    /\ front' = "cli"
    /\ Finish(FALSE)
    /\ UNCHANGED <<file, text>>

MainAdd(cmd, args) ==
    /\ pc = "start"
    /\ cmd = "add" /\ Len(args) >= 1
    /\ Len(load_tasks(file)) < MaxTasks
    /\ Apply(add_task(load_tasks(file), file, Join(args, <<SP>>)), "add", 0)
    /\ front' = "cli"
    /\ Finish(FALSE)
    /\ UNCHANGED text

MainDone(cmd, args) ==
    /\ pc = "start"
    /\ cmd \in {"done", "complete"} /\ Len(args) = 1
    /\ front' = "cli"
    /\ UNCHANGED text
    /\ LET n == PyInt(args[1])
       IN  IF n.ok
           THEN /\ Apply(complete_task(load_tasks(file), file, n.val), "complete", n.val)
                /\ Finish(FALSE)
           ELSE Raise(load_tasks(file), "complete")

MainRm(cmd, args) ==
    /\ pc = "start"
    /\ cmd \in {"rm", "remove"} /\ Len(args) = 1
    /\ front' = "cli"
    /\ UNCHANGED text
    /\ LET n == PyInt(args[1])
       IN  IF n.ok
           THEN /\ Apply(remove_task(load_tasks(file), file, n.val), "remove", n.val)
                /\ Finish(FALSE)
           ELSE Raise(load_tasks(file), "remove")

MainUnknown(cmd, args) ==
    /\ pc = "start"
    /\ cmd # "help"
    /\ cmd # "list"
    /\ ~(cmd = "add" /\ Len(args) >= 1)
    /\ ~(cmd \in {"done", "complete"} /\ Len(args) = 1)
    /\ ~(cmd \in {"rm", "remove"} /\ Len(args) = 1)
    /\ tasks' = load_tasks(file)
    /\ out' = unknown_command
    /\ call' = Call("unknown", 0)
    /\ front' = "cli"
    /\ Finish(FALSE)
    /\ UNCHANGED <<file, text>>

----------------------------------------------------------------------------
(* REPL: run_interactive(tasks), one action per line read at the prompt,   *)
(* with the follow-up prompt where the code asks one.                      *)

\* What can follow done/rm on a REPL line: nothing, a number, or a word.
NumRest == {<<>>, << <<"x">> >>} \cup {<<t>> : t \in {n \in NumTokens : IsDigit(n)}}

\* Lines typed at the "Task ID" follow-up prompt, which is shown only when
\* no number followed the command.
NumLines(rest) ==
    IF Len(rest) >= 1 /\ IsDigit(rest[1]) THEN {<<>>}
    ELSE NumTokens \cup {<<>>, <<SP, "1">>}

\* What can follow add on a REPL line, and the line typed at the follow-up
\* prompt, which is shown only when nothing followed.
AddRest == {<<>>} \cup {<<w>> : w \in Words}
AddLines(rest) == IF Len(rest) >= 1 THEN {<<>>} ELSE Lines

\* run_interactive is entered with the task list loaded from the store.  main
\* never calls it: it is an entry point of its own.  End of input at a prompt
\* (EOFError) is not a command and is not modelled.
RunInteractive ==
    /\ pc = "start"
    /\ tasks' = load_tasks(file)
    /\ front' = "repl"
    /\ pc' = "ready"
    /\ call' = Call("none", 0)
    /\ out' = NoOutput
    /\ UNCHANGED <<file, text>>

Ready == pc = "ready" /\ front = "repl"

\* An empty line: `if not choice: continue`.
ReplBlank ==
    /\ Ready
    /\ call' = Call("blank", 0)
    /\ out' = NoOutput
    /\ UNCHANGED <<tasks, file, front, pc, text>>

ReplList(word) ==
    /\ Ready
    /\ Lower(word) = "list"
    /\ out' = list_tasks(tasks)
    /\ call' = Call("list", 0)
    /\ UNCHANGED <<tasks, file, front, pc, text>>

ReplAdd(word, rest, line) ==
    /\ Ready
    /\ Lower(word) = "add"
    /\ Len(tasks) < MaxTasks
    /\ LET desc == IF Len(rest) >= 1 THEN Join(rest, <<SP>>) ELSE Strip(line)
       IN  Apply(add_task(tasks, file, desc), "add", 0)
    /\ UNCHANGED <<front, pc, text>>

\* The done/complete and rm/remove branches: engine is complete_task or remove_task.
ReplNumbered(op, rest, line) ==
    LET tok == IF Len(rest) >= 1 /\ IsDigit(rest[1]) THEN rest[1] ELSE Strip(line)
        n == PyInt(tok)
    IN  IF ~IsDigit(tok)
        THEN /\ out' = Msg("EnterValidNumber", 0, <<>>, <<>>)
             /\ call' = Call(op, 0)
             /\ UNCHANGED <<tasks, file, pc>>
        ELSE IF ~n.ok
        THEN Raise(tasks, op)
        ELSE /\ Apply(IF op = "complete" THEN complete_task(tasks, file, n.val)
                      ELSE remove_task(tasks, file, n.val), op, n.val)
             /\ UNCHANGED pc

ReplDone(word, rest, line) ==
    /\ Ready
    /\ Lower(word) \in {"done", "complete"}
    /\ ReplNumbered("complete", rest, line)
    /\ UNCHANGED <<front, text>>

ReplRm(word, rest, line) ==
    /\ Ready
    /\ Lower(word) \in {"rm", "remove"}
    /\ ReplNumbered("remove", rest, line)
    /\ UNCHANGED <<front, text>>

ReplHelp(word) ==
    /\ Ready
    /\ Lower(word) = "help"
    /\ out' = print_help
    /\ call' = Call("help", 0)
    /\ UNCHANGED <<tasks, file, front, pc, text>>

ReplExit(word) ==
    /\ Ready
    /\ Lower(word) \in {"exit", "quit"}
    /\ out' = Msg("Goodbye", 0, <<>>, <<>>)
    /\ call' = Call("exit", 0)
    /\ pc' = "exit"
    /\ UNCHANGED <<tasks, file, front, text>>

ReplUnknown(word) ==
    /\ Ready
    /\ Lower(word) \notin {"list", "add", "done", "complete", "rm", "remove",
                           "help", "exit", "quit"}
    /\ out' = unknown_command
    /\ call' = Call("unknown", 0)
    /\ UNCHANGED <<tasks, file, front, pc, text>>

----------------------------------------------------------------------------
(* Text-box view: run_gui's <KeyRelease> binding.                          *)

\* text.get("1.0", tk.END): the content and the newline Tk keeps at the end.
TextGet(t) == t \o <<NL>>

NonBlank(line) == Strip(line) # <<>>

\* save_text: the task list re-derived from the widget content t.
save_text(t) ==
    LET lines == SplitLines(Strip(TextGet(t)))
        kept == SelectSeq(lines, NonBlank)
        new == [i \in 1..Len(kept) |-> [desc |-> kept[i], done |-> FALSE]]
    IN  [tasks |-> new, file |-> save_tasks(new), out |-> NoOutput]

\* What one key press can make of the content t: a character typed or deleted
\* anywhere, or nothing (a cursor or modifier key).
Edits(t) ==
    {t} \cup
    (IF Len(t) > MaxTextLen THEN {}
     ELSE {SubSeq(t, 1, i - 1) \o SubSeq(t, i + 1, Len(t)) : i \in 1..Len(t)}
          \cup (IF Len(t) = MaxTextLen THEN {}
                ELSE {SubSeq(t, 1, i) \o <<c>> \o SubSeq(t, i + 1, Len(t)) :
                          i \in 0..Len(t), c \in TextChars}))

KeyRelease(t) ==
    /\ pc = "gui"
    /\ t \in Edits(text)
    /\ text' = t
    /\ Apply(save_text(t), "resync", 0)
    /\ UNCHANGED <<front, pc>>

\* The window is closed: mainloop and main return.
CloseWindow ==
    /\ pc = "gui"
    /\ pc' = "exit"
    /\ call' = Call("close", 0)
    /\ UNCHANGED <<tasks, file, front, out, text>>

\* The program is started again: a new process, with nothing in memory.
Relaunch ==
    /\ pc \in {"exit", "crashed"}
    /\ pc' = "start"
    /\ front' = "none"
    /\ tasks' = <<>>
    /\ text' = <<>>
    /\ call' = Call("none", 0)
    /\ out' = NoOutput
    /\ UNCHANGED file

Next ==
    \/ MainGui
    \/ \E cmd \in CmdWords, args \in OtherArgs \cup AddArgs : MainHelp(cmd, args)
    \/ \E cmd \in CmdWords, args \in OtherArgs : MainList(cmd, args)
    \/ \E cmd \in CmdWords, args \in AddArgs : MainAdd(cmd, args)
    \/ \E cmd \in CmdWords, args \in NumArgs : MainDone(cmd, args)
    \/ \E cmd \in CmdWords, args \in NumArgs : MainRm(cmd, args)
    \/ \E cmd \in CmdWords, args \in OtherArgs \cup NumArgs : MainUnknown(cmd, args)
    \/ RunInteractive
    \/ ReplBlank
    \/ \E word \in CmdWords : ReplList(word)
    \/ \E word \in CmdWords, rest \in AddRest :
          \E line \in AddLines(rest) : ReplAdd(word, rest, line)
    \/ \E word \in CmdWords, rest \in NumRest :
          \E line \in NumLines(rest) : ReplDone(word, rest, line)
    \/ \E word \in CmdWords, rest \in NumRest :
          \E line \in NumLines(rest) : ReplRm(word, rest, line)
    \/ \E word \in CmdWords : ReplHelp(word)
    \/ \E word \in CmdWords : ReplExit(word)
    \/ \E word \in CmdWords : ReplUnknown(word)
    \/ \E t \in Edits(text) : KeyRelease(t)
    \/ CloseWindow
    \/ Relaunch

Spec == Init /\ [][Next]_vars

----------------------------------------------------------------------------
(* Properties.                                                             *)

\* The task list a handler starts from: a command-line process loads it from
\* the store, the REPL and the text box hold it in memory.
Before == IF pc = "start" THEN load_tasks(file) ELSE tasks

\* The step called complete_task or remove_task (it did not stop at the
\* number check or in int()).
EngineCalled(c, o) ==
    /\ c.op \in {"complete", "remove"}
    /\ o.kind \in {"NoTask", "Completed", "Removed"}

ValidIndex(i, ts) == 1 <= i /\ i <= Len(ts)

DescsOf(ts) == [i \in 1..Len(ts) |-> ts[i].desc]

\* The lines of the text as shown: the text split at its newlines.
VisibleLines(t) == SplitLines(t)

\* C1: complete and remove called with an index outside 1..length(tasks)
\* (0, a negative value, a value past the end) report "No task with ID #<index>",
\* leave the task list unchanged and do not write the store file.
C1_InvalidIndexRejected ==
    [][ (EngineCalled(call', out') /\ ~ValidIndex(call'.idx, Before))
            => /\ out'.kind = "NoTask"
               /\ out'.idx = call'.idx
               /\ tasks' = Before
               /\ file' = file ]_vars

\* C2: whatever is given as the task number to done/complete/rm/remove, in
\* the REPL or on the command line, the command ends with a printed
\* confirmation or a printed error message, and the process never crashes.
C2_NumberNeverCrashes ==
    call.op \in {"complete", "remove"}
        => /\ pc # "crashed"
           /\ out.kind \in {"Completed", "Removed", "NoTask", "EnterValidNumber"}

\* C3: complete(i) with 1 <= i <= length followed by list shows task i marked
\* done and every other task unchanged: same length, order, descriptions, and
\* the same done flag at every position other than i.
C3_CompleteMarksOnlyTaskI ==
    [][ (call'.op = "complete" /\ EngineCalled(call', out')
            /\ ValidIndex(call'.idx, Before))
            => LET i == call'.idx
                   was == list_tasks(Before).lines
                   shown == list_tasks(tasks').lines
               IN  /\ out'.kind = "Completed"
                   /\ Len(shown) = Len(was)
                   /\ shown[i].status = "check"
                   /\ shown[i].desc = was[i].desc
                   /\ \A j \in 1..Len(was) :
                         /\ shown[j].pos = j
                         /\ j # i => shown[j] = was[j] ]_vars

C3_Witness ==
    /\ call.op = "complete" /\ out.kind = "Completed" /\ call.idx = 1
    /\ Len(tasks) = 2
    /\ tasks[1].done /\ ~tasks[2].done

\* C4: remove(i) with 1 <= i <= length makes the list one shorter, leaves
\* positions 1..i-1 unchanged, and moves every task from position j > i to
\* position j-1 with its description and done flag unchanged.
C4_RemoveShiftsLaterTasks ==
    [][ (call'.op = "remove" /\ EngineCalled(call', out')
            /\ ValidIndex(call'.idx, Before))
            => LET i == call'.idx
               IN  /\ out'.kind = "Removed"
                   /\ Len(tasks') = Len(Before) - 1
                   /\ \A j \in 1..(i - 1) : tasks'[j] = Before[j]
                   /\ \A j \in (i + 1)..Len(Before) : tasks'[j - 1] = Before[j] ]_vars

C4_Witness ==
    /\ call.op = "remove" /\ out.kind = "Removed" /\ call.idx = 1
    /\ Len(tasks) = MaxTasks - 1
    /\ tasks[1].done
    /\ tasks[1].desc # out.desc

\* C5: each add appends exactly one task with done=false at the end and
\* changes no task already there, and list shows the tasks in that order at
\* the positions 1..n.
C5_AddAppends ==
    [][ call'.op = "add"
            => LET n == Len(Before)
                   shown == list_tasks(tasks').lines
               IN  /\ Len(tasks') = n + 1
                   /\ tasks'[n + 1] = [desc |-> out'.desc, done |-> FALSE]
                   /\ \A j \in 1..n : tasks'[j] = Before[j]
                   /\ Len(shown) = n + 1
                   /\ \A j \in 1..(n + 1) :
                         shown[j].pos = j /\ shown[j].desc = tasks'[j].desc ]_vars

C5_Witness ==
    /\ call.op = "add" /\ out.kind = "Added"
    /\ Len(tasks) = MaxTasks
    /\ tasks[1].done
    /\ tasks[1].desc # tasks[Len(tasks)].desc

\* The last handler changed the task list.
Mutated == out.kind \in {"Added", "Completed", "Removed"} \/ call.op = "resync"

\* C6: in a process that loaded the store at startup, after every mutating
\* operation (add, successful complete or remove, text-box resync), and after
\* list, help, unknown commands and failed complete or remove mixed with
\* them, the store file holds exactly the in-memory task list.
C6_StoreMatchesMemory ==
    pc # "start"
        => /\ Mutated => file.exists
           /\ IF file.exists THEN file.doc = json_dump(tasks) ELSE tasks = <<>>

C6_Witness ==
    /\ pc = "ready"
    /\ out.kind = "NoTask"
    /\ file.exists
    /\ Len(tasks) = MaxTasks
    /\ tasks[1].done

\* C7: save(tasks) followed by load() gives back tasks (length, order,
\* descriptions, done flags), the empty list included, and load() without a
\* store file gives the empty list.
C7_SaveLoadRoundTrip ==
    pc # "start"
        => /\ load_tasks(save_tasks(tasks)) = tasks
           /\ tasks = load_tasks(file)
           /\ ~file.exists => tasks = <<>>

C7_Witness ==
    /\ pc \in {"ready", "gui"}
    /\ call.op \in {"none", "open"}
    /\ file.exists
    /\ Len(tasks) = MaxTasks
    /\ tasks[1].done /\ ~tasks[2].done
    /\ \E i \in 1..Len(tasks) : \E k \in 1..Len(tasks[i].desc) : tasks[i].desc[k] = NL

\* C8: after every text-box resync the task list is exactly the sequence of
\* non-blank lines of the visible text, in order, each with done=false, and
\* that list is persisted.
C8_ResyncKeepsVisibleLines ==
    call.op = "resync"
        => LET kept == SelectSeq(VisibleLines(text), NonBlank)
           IN  /\ tasks = [i \in 1..Len(kept) |-> [desc |-> kept[i], done |-> FALSE]]
               /\ file = save_tasks(tasks)

\* C9: in the REPL an unrecognized command prints usage, changes neither the
\* task list nor the store file and returns to the ready state; exit or quit
\* moves the loop to a terminal state in which nothing is read or changed any
\* more; no other command ends the loop.
C9_ReplStateMachine ==
    [][ /\ (Ready /\ call'.op = "unknown")
            => /\ out'.kind = "UnknownUsage"
               /\ pc' = "ready"
               /\ UNCHANGED <<tasks, file>>
        /\ (Ready /\ call'.op = "exit") => pc' = "exit"
        /\ (front = "repl" /\ pc = "exit")
            => (pc' = "start" \/ UNCHANGED <<tasks, file, pc>>)
        /\ (Ready /\ pc' # "ready") => (call'.op = "exit" /\ pc' = "exit") ]_vars

\* C10: for a task list made by add, complete and remove, opening the text-box
\* view and resyncing without changing the text leaves the sequence of task
\* descriptions unchanged.
C10_UneditedResyncKeepsDescs ==
    [][ (pc = "gui" /\ call.op = "open" /\ call'.op = "resync" /\ text' = text)
            => DescsOf(tasks') = DescsOf(tasks) ]_vars

====
